---- MODULE Spec2Model ----
(***************************************************************************)
(* heshui: a desktop water-intake reminder.                                *)
(*                                                                         *)
(* The model covers the reminder-point store and the drink ledger of       *)
(* heshui/models.py (DatabaseManager), the tick check and the status       *)
(* display of heshui/main.py (MainWindow) and the reminder-point editing   *)
(* of heshui/settings.py (SettingsDialog).  Everything runs on the one Qt  *)
(* event-loop thread, so every handler is one atomic action; saveSettings  *)
(* is followed call by call (pc) because its individual database calls are *)
(* observable through their return values and may fail one by one.         *)
(***************************************************************************)
EXTENDS Integers, Sequences, FiniteSets, Bags, TLC

VARIABLES
    pc,                 \* position of the GUI thread: "start", "idle", "save_delete", "save_add"
    now,                \* datetime.now(): [day, hour, minute, second]
    reminder_times,     \* table reminder_times: bag of time-of-day rows
    drink_records,      \* table drink_records: sequence of rows in id order
    mute,               \* Config value 'mute'
    last_reminder_time, \* MainWindow.last_reminder_time: None or time(hour, minute)
    next_reminder_label,\* MainWindow.next_reminder_label: "%H:%M" text or NoLabel
    status_total,       \* total shown by MainWindow.status_label
    dlg_open,           \* a SettingsDialog is being executed
    dlg_reminder_times, \* SettingsDialog.reminder_times (python list)
    mute_check,         \* SettingsDialog.mute_check
    mute_action,        \* checked state of the tray's mute action
    time_list,          \* SettingsDialog.time_list items ("%H:%M" texts)
    save_todo,          \* saveSettings: times still to be passed to the current loop
    ret,                \* what the last database write call returned, "none" after any other step
    fault,              \* the storage failed (raised) inside the last database write call
    tick_log,           \* tick checks of the current calendar minute
    query,              \* the last read query of the ledger and its outcome, NoQuery after any other step
    timer_active,       \* the QTimer of setupTimer is running in a live event loop
    show_failure,       \* calendar minute of the last tick in which showReminder raised
    widgets,            \* the statistics widgets built so far: "none", "canvas", "no_canvas"
    daily_goal,         \* Config value 'daily_goal'
    goal_spin,          \* SettingsDialog.goal_spin
    progress,           \* CircularProgress.value of MainWindow.progress
    drink_notice        \* the last step displayed recordDrink's success message

vars == <<pc, now, reminder_times, drink_records, mute, last_reminder_time,
          next_reminder_label, status_total, dlg_open, dlg_reminder_times,
          mute_check, mute_action, time_list, save_todo, ret, fault, tick_log,
          query, timer_active, show_failure, widgets, daily_goal, goal_spin,
          progress, drink_notice>>

(***************************************************************************)
(* Bounds                                                                  *)
(***************************************************************************)
MaxDay == 1
MaxTicksPerMinute == 2
MaxRecords == 3

(***************************************************************************)
(* Times of day and timestamps                                             *)
(***************************************************************************)
T(h, m) == [hour |-> h, minute |-> m]

None == [hour |-> -1, minute |-> -1]

NoLabel == <<>>

\* models.py: default_times = [time(9, 0), time(12, 0), time(15, 0), time(18, 0)]
default_times == <<T(9, 0), T(12, 0), T(15, 0), T(18, 0)>>

\* times of day a user enters in the dialog's QTimeEdit
EditTimes == {T(9, 0), T(10, 30)}

Times == {default_times[i] : i \in 1..Len(default_times)} \cup EditTimes

\* minutes and seconds at which the clock is read
ClockMinutes == {T(9, 0), T(10, 30), T(19, 0)}
ClockSeconds == {0, 30}

ClockDomain ==
    {[day |-> d, hour |-> t.hour, minute |-> t.minute, second |-> s] :
        d \in 0..MaxDay, t \in ClockMinutes, s \in ClockSeconds}

\* seconds since midnight of a time of day / of a timestamp's time part
TimeSecs(t) == t.hour * 3600 + t.minute * 60
StampTimeSecs(ts) == ts.hour * 3600 + ts.minute * 60 + ts.second
\* seconds since day 0 of a datetime
DateTimeSecs(ts) == ts.day * 86400 + StampTimeSecs(ts)

\* datetime.combine(date, t)
Combine(d, t) == [day |-> d, hour |-> t.hour, minute |-> t.minute, second |-> 0]

\* t.strftime("%H:%M") and the parse of deleteReminderTime
Strftime(t) == <<t.hour, t.minute>>
ParseTime(s) == T(s[1], s[2])

(***************************************************************************)
(* DatabaseManager: reminder points                                        *)
(***************************************************************************)
Row(t) == SetToBag({t})

MinTime(S) == CHOOSE t \in S : \A u \in S : TimeSecs(t) <= TimeSecs(u)

RECURSIVE SortedRows(_)
SortedRows(b) ==
    IF b = EmptyBag THEN <<>>
    ELSE LET m == MinTime(BagToSet(b))
         IN  <<m>> \o SortedRows(b (-) Row(m))

\* session.query(ReminderTime).order_by(ReminderTime.time).all()
get_reminder_times(table) == SortedRows(table)

RECURSIVE AddAll(_, _)
AddAll(table, seq) ==
    IF seq = <<>> THEN table
    ELSE AddAll(table (+) Row(Head(seq)), Tail(seq))

\* the defaults added whatever the table holds
add_default_reminder_times_Always(table) == AddAll(table, default_times)

\* _add_default_reminder_times_if_empty
add_default_reminder_times_if_empty(table) ==
    IF BagCardinality(table) = 0 THEN AddAll(table, default_times) ELSE table

\* add_reminder_time without the check for an existing row
add_reminder_time_NoCheck(table, t, fails) ==
    IF fails THEN <<FALSE, table>>
    ELSE <<TRUE, table (+) Row(t)>>

\* add_reminder_time: <<returned value, table afterwards>>
add_reminder_time(table, t, fails) ==
    IF fails THEN <<FALSE, table>>
    ELSE IF BagIn(t, table) THEN <<FALSE, table>>
    ELSE <<TRUE, table (+) Row(t)>>

\* a delete_reminder_time that refuses to remove the only row of the table
delete_reminder_time_KeepsLast(table, t, fails) ==
    IF fails THEN <<FALSE, table>>
    ELSE IF ~BagIn(t, table) THEN <<FALSE, table>>
    ELSE IF BagCardinality(table) <= 1 THEN <<FALSE, table>>
    ELSE <<TRUE, table (-) Row(t)>>

\* delete_reminder_time: <<returned value, table afterwards>>
delete_reminder_time(table, t, fails) ==
    IF fails THEN <<FALSE, table>>
    ELSE IF ~BagIn(t, table) THEN <<FALSE, table>>
    ELSE <<TRUE, table (-) Row(t)>>

(***************************************************************************)
(* MainWindow: next reminder                                               *)
(***************************************************************************)
\* python sorted() of a list of times
RECURSIVE SortedSeq(_)
SortedSeq(seq) ==
    IF seq = <<>> THEN <<>>
    ELSE LET i == CHOOSE k \in 1..Len(seq) :
                      \A j \in 1..Len(seq) : TimeSecs(seq[k]) <= TimeSecs(seq[j])
         IN  <<seq[i]>> \o
             SortedSeq(SubSeq(seq, 1, i - 1) \o SubSeq(seq, i + 1, Len(seq)))

NoDateTime == [day |-> -1, hour |-> -1, minute |-> -1, second |-> -1]

\* the search for the next point with >= in place of >
RECURSIVE FirstLater_NotStrict(_, _)
FirstLater_NotStrict(seq, secs) ==
    IF seq = <<>> THEN None
    ELSE IF TimeSecs(Head(seq)) >= secs THEN Head(seq)
    ELSE FirstLater_NotStrict(Tail(seq), secs)

RECURSIVE FirstLater(_, _)
FirstLater(seq, secs) ==
    IF seq = <<>> THEN None
    ELSE IF TimeSecs(Head(seq)) > secs THEN Head(seq)
    ELSE FirstLater(Tail(seq), secs)

getNextReminderTime(ts, table) ==
    LET sorted == SortedSeq(get_reminder_times(table))
        t      == FirstLater(sorted, StampTimeSecs(ts))
    IN  IF sorted = <<>> THEN NoDateTime
        ELSE IF t # None THEN Combine(ts.day, t)
        ELSE Combine(ts.day + 1, sorted[1])

\* text set by updateNextReminderDisplay
NextReminderText(ts, table) ==
    LET next_time == getNextReminderTime(ts, table)
    IN  IF next_time # NoDateTime THEN Strftime(next_time) ELSE NoLabel

(***************************************************************************)
(* DatabaseManager: drink records                                          *)
(***************************************************************************)
\* amounts passed to add_record; recordDrink always passes DrinkAmount
DrinkAmount == 200
Amounts == {-100, 0, DrinkAmount, 300}

\* an add_record that writes over the newest row instead of inserting one
add_record_ReplaceLast(records, ts, amount, note) ==
    IF records = <<>>
    THEN <<[id |-> 1, timestamp |-> ts, amount |-> amount, note |-> note]>>
    ELSE [records EXCEPT ![Len(records)] =
              [id |-> Len(records), timestamp |-> ts, amount |-> amount, note |-> note]]

\* add_record with a column default evaluated once, when the module is loaded
add_record_StaleDefault(records, ts, amount, note) ==
    Append(records, [id |-> Len(records) + 1,
                     timestamp |-> [day |-> 0, hour |-> 9, minute |-> 0, second |-> 0],
                     amount |-> amount, note |-> note])

\* add_record: the new row gets the next id and timestamp = datetime.now()
add_record(records, ts, amount, note) ==
    Append(records, [id |-> Len(records) + 1, timestamp |-> ts,
                     amount |-> amount, note |-> note])

\* get_today_records: rows with timestamp >= today (midnight of today's date)
RECURSIVE get_today_records(_, _)
get_today_records(records, ts) ==
    IF records = <<>> THEN <<>>
    ELSE LET rest == get_today_records(Tail(records), ts)
         IN  IF DateTimeSecs(Head(records).timestamp) >= ts.day * 86400
             THEN <<Head(records)>> \o rest
             ELSE rest

RECURSIVE SumAmounts(_)
SumAmounts(records) ==
    IF records = <<>> THEN 0
    ELSE Head(records).amount + SumAmounts(Tail(records))

\* get_total_today
get_total_today(records, ts) == SumAmounts(get_today_records(records, ts))

(***************************************************************************)
(* DatabaseManager.get_weekly_data                                         *)
(***************************************************************************)
\* day 0 of the model is the 3rd of January of a year of 365 days
EpochDayOfYear == 2
DaysInYear == 365
MonthLengths == <<31, 28, 31, 30, 31, 30, 31, 31, 30, 31, 30, 31>>

RECURSIVE MonthDay(_, _)
MonthDay(n, month) ==
    IF n < MonthLengths[month] THEN <<month, n + 1>>
    ELSE MonthDay(n - MonthLengths[month], month + 1)

\* date.strftime('%m-%d'): month and day of the month, the year is dropped
StrftimeMonthDay(d) == MonthDay((d + EpochDayOfYear) % DaysInYear, 1)

\* number of days of the weekly range, today included
WeekDays == 7

\* SELECT date(timestamp), SUM(amount) ... WHERE date(timestamp) >= start
\* GROUP BY day ORDER BY day: rows <<day, total>>
RECURSIVE GroupByDay(_, _)
GroupByDay(records, days) ==
    IF days = {} THEN <<>>
    ELSE LET d == CHOOSE x \in days : \A y \in days : x <= y
             rows == SelectSeq(records, LAMBDA r : r.timestamp.day = d)
         IN  <<<<d, SumAmounts(rows)>>>> \o GroupByDay(records, days \ {d})

WeeklyQuery(records, start_date) ==
    GroupByDay(records,
               {records[i].timestamp.day : i \in 1..Len(records)}
                   \cap {d \in Int : d >= start_date})

\* python dict kept as the sequence of its items: d[key] = value
DictSet(items, key, value) ==
    IF \E i \in 1..Len(items) : items[i][1] = key
    THEN [i \in 1..Len(items) |->
              IF items[i][1] = key THEN <<key, value>> ELSE items[i]]
    ELSE Append(items, <<key, value>>)

RECURSIVE UpdateAll(_, _)
UpdateAll(items, results) ==
    IF results = <<>> THEN items
    ELSE UpdateAll(DictSet(items, StrftimeMonthDay(Head(results)[1]), Head(results)[2]),
                   Tail(results))

\* get_weekly_data: the list of (day label, amount); fails: the query raises
get_weekly_data(records, ts, fails) ==
    LET today      == ts.day
        start_date == today - (WeekDays - 1)
        date_dict  == [i \in 1..WeekDays |-> <<StrftimeMonthDay(start_date + i - 1), 0>>]
    IN  IF fails THEN <<<<StrftimeMonthDay(today), 0>>>>
        ELSE UpdateAll(date_dict, WeeklyQuery(records, start_date))

(***************************************************************************)
(* The attributes of DatabaseManager, as stats.py looks them up            *)
(***************************************************************************)
DatabaseManagerMethods ==
    {"add_record", "get_today_records", "get_total_today", "get_weekly_data",
     "get_reminder_times", "add_reminder_time", "delete_reminder_time"}

\* the hours of a day in the series of a day that the test suite mocks
HoursOfDay == 24

(***************************************************************************)
(* MainWindow.updateStatus and CircularProgress.setValue                   *)
(***************************************************************************)
\* Config._default_config['daily_goal']
DefaultGoal == 2000

\* goal_spin.setRange(500, 5000)
MinGoal == 500
MaxGoal == 5000

\* QSpinBox.setValue keeps the value inside the range
SpinClamp(v) == IF v < MinGoal THEN MinGoal ELSE IF v > MaxGoal THEN MaxGoal ELSE v

\* python numbers as fractions num / den, den > 0
Num(n) == [num |-> n, den |-> 1]
TrueDiv(a, b) == [num |-> a, den |-> b]
Less(x, y) == x.num * y.den < y.num * x.den

\* python min(a, b) and max(a, b): the first argument wins a tie
PyMin(a, b) == IF Less(b, a) THEN b ELSE a
PyMax(a, b) == IF Less(a, b) THEN b ELSE a

\* the full ring
FullProgress == 100

\* progress = min(100, total * 100 / goal)
updateStatusProgress(total, goal) ==
    PyMin(Num(FullProgress), TrueDiv(total * 100, goal))

\* CircularProgress.setValue: self.value = max(0, min(value, 100))
setValue(value) == PyMax(Num(0), PyMin(value, Num(FullProgress)))

\* the statistics widgets before StatsTabWidget is built
NoWidgets == [weekly |-> "none", daily |-> "none"]

(***************************************************************************)
(* Record of the tick checks made in the current calendar minute           *)
(***************************************************************************)
NoMinute == <<>>

\* no read query was the last step
NoQuery == [op |-> "none", raised |-> FALSE, failed |-> FALSE, total |-> 0, data |-> <<>>,
            calls |-> 0, widget |-> "none"]

CalendarMinute(ts) == <<ts.day, ts.hour, ts.minute>>

NoTicks == [minute |-> NoMinute, checks |-> 0, matching |-> 0, fires |-> 0,
            shown |-> 0, first_fired |-> FALSE]

(***************************************************************************)
(* Initial state: the process starts with whatever an earlier run left in  *)
(* the reminder_times table                                                *)
(***************************************************************************)
PriorTables == {SetToBag({T(9, 0)}), SetToBag({T(10, 30), T(12, 0)})}

Init ==
    /\ pc = "start"
    /\ now \in {ts \in ClockDomain : ts.day = 0}
    /\ reminder_times \in PriorTables
    /\ drink_records = <<>>
    /\ mute \in BOOLEAN
    /\ last_reminder_time = None
    /\ next_reminder_label = NoLabel
    /\ status_total = 0
    /\ dlg_open = FALSE
    /\ dlg_reminder_times = <<>>
    /\ mute_check = FALSE
    /\ mute_action = FALSE
    /\ time_list = <<>>
    /\ save_todo = <<>>
    /\ ret = "none"
    /\ fault = FALSE
    /\ tick_log = NoTicks
    /\ query = NoQuery
    /\ timer_active = FALSE
    /\ show_failure = NoMinute
    /\ widgets = NoWidgets
    /\ daily_goal = DefaultGoal
    /\ goal_spin = MinGoal
    /\ progress = Num(0)
    /\ drink_notice = FALSE

(***************************************************************************)
(* MainWindow.__init__ with DatabaseManager._initialize                    *)
(***************************************************************************)
Initialize ==
    /\ pc = "start"
    /\ reminder_times' = add_default_reminder_times_if_empty(reminder_times)
    /\ status_total' = get_total_today(drink_records, now)
    /\ mute_action' = mute
    /\ next_reminder_label' = NextReminderText(now, reminder_times')
    /\ last_reminder_time' = None
    /\ ret' = "none" /\ fault' = FALSE
    /\ pc' = "idle"
    /\ query' = NoQuery
    /\ timer_active' = TRUE
    /\ UNCHANGED show_failure
    /\ progress' = setValue(updateStatusProgress(status_total', daily_goal))
    /\ drink_notice' = FALSE
    /\ UNCHANGED <<widgets, daily_goal, goal_spin>>
    /\ UNCHANGED <<now, drink_records, mute, dlg_open, dlg_reminder_times,
                   mute_check, time_list, save_todo, tick_log>>

(***************************************************************************)
(* MainWindow.checkReminderTimes, run by the timer at timestamp ts         *)
(***************************************************************************)
\* a match loop that compares the minute of the hour only
RECURSIVE MatchesAny_MinuteOnly(_, _)
MatchesAny_MinuteOnly(seq, current_time) ==
    IF seq = <<>> THEN FALSE
    ELSE IF current_time.minute = Head(seq).minute
         THEN TRUE
         ELSE MatchesAny_MinuteOnly(Tail(seq), current_time)

\* the loop over reminder_times with its break at the first match
RECURSIVE MatchesAny(_, _)
MatchesAny(seq, current_time) ==
    IF seq = <<>> THEN FALSE
    ELSE IF current_time.hour = Head(seq).hour /\ current_time.minute = Head(seq).minute
         THEN TRUE
         ELSE MatchesAny(Tail(seq), current_time)

\* the dedup guard of checkReminderTimes
ShouldFire(last, current_time) == last # current_time

\* a showReminder that does not look at 'mute'
showReminder_IgnoresMute(muted) == TRUE

\* showReminder: the tray message is shown unless 'mute' is set
showReminder(muted) == ~muted

LogTick(log, ts, matched, fired, shown) ==
    LET same == log.minute = CalendarMinute(ts)
        old  == IF same THEN log ELSE NoTicks
    IN  [minute      |-> CalendarMinute(ts),
         checks      |-> old.checks + 1,
         matching    |-> old.matching + (IF matched THEN 1 ELSE 0),
         fires       |-> old.fires + (IF fired THEN 1 ELSE 0),
         shown       |-> old.shown + (IF shown THEN 1 ELSE 0),
         first_fired |-> IF matched /\ old.matching = 0 THEN fired ELSE old.first_fired]

checkReminderTimes(ts) ==
    /\ pc = "idle"
    /\ timer_active
    /\ DateTimeSecs(ts) >= DateTimeSecs(now)
    /\ tick_log.minute = CalendarMinute(ts) => tick_log.checks < MaxTicksPerMinute
    /\ now' = ts
    /\ LET current_time == T(ts.hour, ts.minute)
           matched == MatchesAny(get_reminder_times(reminder_times), current_time)
           fired   == matched /\ ShouldFire(last_reminder_time, current_time)
       IN  /\ last_reminder_time' = IF fired THEN current_time ELSE last_reminder_time
           /\ tick_log' = LogTick(tick_log, ts, matched, fired, fired /\ showReminder(mute))
    /\ ret' = "none" /\ fault' = FALSE
    /\ next_reminder_label' = NextReminderText(ts, reminder_times)
    /\ query' = NoQuery
    /\ UNCHANGED <<timer_active, show_failure>>
    /\ drink_notice' = FALSE
    /\ UNCHANGED <<widgets, daily_goal, goal_spin, progress>>
    /\ UNCHANGED <<pc, reminder_times, drink_records, mute, status_total, dlg_open,
                   dlg_reminder_times, mute_check, mute_action, time_list, save_todo>>

\* checkReminderTimes at ts when tray_icon.showMessage raises: the handler is
\* left at the call of showReminder, before last_reminder_time is assigned and
\* before updateNextReminderDisplay; sys.excepthook reports the exception and
\* the event loop, and with it the timer, goes on
checkReminderTimesRaises(ts) ==
    /\ pc = "idle"
    /\ timer_active
    /\ DateTimeSecs(ts) >= DateTimeSecs(now)
    /\ tick_log.minute = CalendarMinute(ts) => tick_log.checks < MaxTicksPerMinute
    /\ LET current_time == T(ts.hour, ts.minute)
       IN  /\ MatchesAny(get_reminder_times(reminder_times), current_time)
           /\ ShouldFire(last_reminder_time, current_time)
           /\ showReminder(mute)
    /\ now' = ts
    /\ tick_log' = LogTick(tick_log, ts, TRUE, TRUE, FALSE)
    /\ show_failure' = CalendarMinute(ts)
    /\ ret' = "none" /\ fault' = FALSE
    /\ query' = NoQuery
    /\ UNCHANGED <<pc, reminder_times, drink_records, mute, last_reminder_time,
                   next_reminder_label, status_total, dlg_open, dlg_reminder_times,
                   mute_check, mute_action, time_list, save_todo, timer_active>>
    /\ drink_notice' = FALSE
    /\ UNCHANGED <<widgets, daily_goal, goal_spin, progress>>

(***************************************************************************)
(* MainWindow.toggleMute, from the tray menu                               *)
(***************************************************************************)
toggleMute ==
    /\ pc = "idle"
    /\ mute_action' = ~mute_action
    /\ mute' = mute_action'
    /\ ret' = "none" /\ fault' = FALSE
    /\ query' = NoQuery
    /\ UNCHANGED <<timer_active, show_failure>>
    /\ drink_notice' = FALSE
    /\ UNCHANGED <<widgets, daily_goal, goal_spin, progress>>
    /\ UNCHANGED <<pc, now, reminder_times, drink_records, last_reminder_time,
                   next_reminder_label, status_total, dlg_open, dlg_reminder_times,
                   mute_check, time_list, save_todo, tick_log>>

(***************************************************************************)
(* SettingsDialog                                                          *)
(***************************************************************************)
\* updateTimeList: the items are the sorted times, formatted
RECURSIVE FormatAll(_)
FormatAll(seq) ==
    IF seq = <<>> THEN <<>> ELSE <<Strftime(Head(seq))>> \o FormatAll(Tail(seq))

updateTimeList(list) == FormatAll(SortedSeq(list))

\* a membership test that looks at the last element only
InList_LastOnly(list, t) == list # <<>> /\ list[Len(list)] = t

\* python: x in list
InList(list, t) == \E i \in 1..Len(list) : list[i] = t

\* python: list.remove(x), the first occurrence
RECURSIVE Remove(_, _)
Remove(list, t) ==
    IF list = <<>> THEN <<>>
    ELSE IF Head(list) = t THEN Tail(list)
    ELSE <<Head(list)>> \o Remove(Tail(list), t)

\* MainWindow.showSettings up to dialog.exec(): SettingsDialog.__init__, loadSettings
showSettings ==
    /\ pc = "idle"
    /\ ~dlg_open
    /\ dlg_open' = TRUE
    /\ dlg_reminder_times' = get_reminder_times(reminder_times)
    /\ mute_check' = mute
    /\ time_list' = updateTimeList(dlg_reminder_times')
    /\ ret' = "none" /\ fault' = FALSE
    /\ query' = NoQuery
    /\ UNCHANGED <<timer_active, show_failure>>
    /\ goal_spin' = SpinClamp(daily_goal)
    /\ drink_notice' = FALSE
    /\ UNCHANGED <<widgets, daily_goal, progress>>
    /\ UNCHANGED <<pc, now, reminder_times, drink_records, mute, last_reminder_time,
                   next_reminder_label, status_total, mute_action, save_todo, tick_log>>

\* an addReminderTime that writes the new point to the database at once
addReminderTime_WritesStore(new_time) ==
    /\ pc = "idle"
    /\ dlg_open
    /\ IF InList(dlg_reminder_times, new_time)
       THEN /\ ret' = "none" /\ fault' = FALSE
            /\ UNCHANGED <<dlg_reminder_times, time_list>>
       ELSE /\ dlg_reminder_times' = Append(dlg_reminder_times, new_time)
            /\ time_list' = updateTimeList(dlg_reminder_times')
            /\ ret' = "none" /\ fault' = FALSE
    /\ query' = NoQuery
    /\ UNCHANGED <<timer_active, show_failure>>
    /\ drink_notice' = FALSE
    /\ UNCHANGED <<widgets, daily_goal, goal_spin, progress>>
    /\ reminder_times' = add_reminder_time(reminder_times, new_time, FALSE)[2]
    /\ UNCHANGED <<pc, now, drink_records, mute, last_reminder_time,
                   next_reminder_label, status_total, dlg_open, mute_check,
                   mute_action, save_todo, tick_log>>

\* the add button: the time of time_edit is appended to self.reminder_times
addReminderTime(new_time) ==
    /\ pc = "idle"
    /\ dlg_open
    /\ IF InList(dlg_reminder_times, new_time)
       THEN /\ ret' = "none" /\ fault' = FALSE
            /\ UNCHANGED <<dlg_reminder_times, time_list>>
       ELSE /\ dlg_reminder_times' = Append(dlg_reminder_times, new_time)
            /\ time_list' = updateTimeList(dlg_reminder_times')
            /\ ret' = "none" /\ fault' = FALSE
    /\ query' = NoQuery
    /\ UNCHANGED <<timer_active, show_failure>>
    /\ drink_notice' = FALSE
    /\ UNCHANGED <<widgets, daily_goal, goal_spin, progress>>
    /\ UNCHANGED <<pc, now, reminder_times, drink_records, mute, last_reminder_time,
                   next_reminder_label, status_total, dlg_open, mute_check,
                   mute_action, save_todo, tick_log>>

\* selected = 0: no item of the list is selected
deleteReminderTime(selected) ==
    /\ pc = "idle"
    /\ dlg_open
    /\ selected \in 0..Len(time_list)
    /\ IF selected = 0
       THEN /\ ret' = "none" /\ fault' = FALSE
            /\ UNCHANGED <<dlg_reminder_times, time_list>>
       ELSE LET time_obj == ParseTime(time_list[selected])
            IN  IF Len(dlg_reminder_times) <= 1
                THEN /\ ret' = "none" /\ fault' = FALSE
                     /\ UNCHANGED <<dlg_reminder_times, time_list>>
                ELSE /\ dlg_reminder_times' =
                            IF InList(dlg_reminder_times, time_obj)
                            THEN Remove(dlg_reminder_times, time_obj)
                            ELSE dlg_reminder_times
                     /\ time_list' = updateTimeList(dlg_reminder_times')
                     /\ ret' = "none" /\ fault' = FALSE
    /\ query' = NoQuery
    /\ UNCHANGED <<timer_active, show_failure>>
    /\ drink_notice' = FALSE
    /\ UNCHANGED <<widgets, daily_goal, goal_spin, progress>>
    /\ UNCHANGED <<pc, now, reminder_times, drink_records, mute, last_reminder_time,
                   next_reminder_label, status_total, dlg_open, mute_check,
                   mute_action, save_todo, tick_log>>

\* the user clicks the dialog's mute check box
clickMuteCheck ==
    /\ pc = "idle"
    /\ dlg_open
    /\ mute_check' = ~mute_check
    /\ ret' = "none" /\ fault' = FALSE
    /\ query' = NoQuery
    /\ drink_notice' = FALSE
    /\ UNCHANGED <<timer_active, show_failure, widgets, daily_goal, goal_spin, progress>>
    /\ UNCHANGED <<pc, now, reminder_times, drink_records, mute, last_reminder_time,
                   next_reminder_label, status_total, dlg_open, dlg_reminder_times,
                   mute_action, time_list, save_todo, tick_log>>

\* the user sets the dialog's goal spin box to g
setGoal(g) ==
    /\ pc = "idle"
    /\ dlg_open
    /\ goal_spin' = SpinClamp(g)
    /\ ret' = "none" /\ fault' = FALSE
    /\ query' = NoQuery
    /\ drink_notice' = FALSE
    /\ UNCHANGED <<timer_active, show_failure, widgets, daily_goal, progress>>
    /\ UNCHANGED <<pc, now, reminder_times, drink_records, mute, last_reminder_time,
                   next_reminder_label, status_total, dlg_open, dlg_reminder_times,
                   mute_check, mute_action, time_list, save_todo, tick_log>>

\* the cancel button: QDialog.reject, showSettings does nothing more
reject ==
    /\ pc = "idle"
    /\ dlg_open
    /\ dlg_open' = FALSE
    /\ dlg_reminder_times' = <<>>
    /\ time_list' = <<>>
    /\ mute_check' = FALSE
    /\ ret' = "none" /\ fault' = FALSE
    /\ query' = NoQuery
    /\ UNCHANGED <<timer_active, show_failure>>
    /\ goal_spin' = MinGoal
    /\ drink_notice' = FALSE
    /\ UNCHANGED <<widgets, daily_goal, progress>>
    /\ UNCHANGED <<pc, now, reminder_times, drink_records, mute, last_reminder_time,
                   next_reminder_label, status_total, mute_action, save_todo, tick_log>>

\* saveSettings up to current_times = self.db.get_reminder_times()
saveSettings ==
    /\ pc = "idle"
    /\ dlg_open
    /\ mute' = mute_check
    /\ save_todo' = get_reminder_times(reminder_times)
    /\ pc' = "save_delete"
    /\ ret' = "none" /\ fault' = FALSE
    /\ query' = NoQuery
    /\ UNCHANGED <<timer_active, show_failure>>
    /\ daily_goal' = goal_spin
    /\ drink_notice' = FALSE
    /\ UNCHANGED <<widgets, goal_spin, progress>>
    /\ UNCHANGED <<now, reminder_times, drink_records, last_reminder_time,
                   next_reminder_label, status_total, dlg_open, dlg_reminder_times,
                   mute_check, mute_action, time_list, tick_log>>

\* one iteration of: for t in current_times: self.db.delete_reminder_time(t)
saveDelete(fails) ==
    /\ pc = "save_delete"
    /\ save_todo # <<>>
    /\ LET r == delete_reminder_time(reminder_times, Head(save_todo), fails)
       IN  /\ reminder_times' = r[2]
           /\ ret' = (IF r[1] THEN "true" ELSE "false") /\ fault' = fails
    /\ save_todo' = Tail(save_todo)
    /\ query' = NoQuery
    /\ UNCHANGED <<timer_active, show_failure>>
    /\ drink_notice' = FALSE
    /\ UNCHANGED <<widgets, daily_goal, goal_spin, progress>>
    /\ UNCHANGED <<pc, now, drink_records, mute, last_reminder_time,
                   next_reminder_label, status_total, dlg_open, dlg_reminder_times,
                   mute_check, mute_action, time_list, tick_log>>

\* the delete loop is over, the add loop starts over self.reminder_times
saveDeleteDone ==
    /\ pc = "save_delete"
    /\ save_todo = <<>>
    /\ save_todo' = dlg_reminder_times
    /\ pc' = "save_add"
    /\ ret' = "none" /\ fault' = FALSE
    /\ query' = NoQuery
    /\ UNCHANGED <<timer_active, show_failure>>
    /\ drink_notice' = FALSE
    /\ UNCHANGED <<widgets, daily_goal, goal_spin, progress>>
    /\ UNCHANGED <<now, reminder_times, drink_records, mute, last_reminder_time,
                   next_reminder_label, status_total, dlg_open, dlg_reminder_times,
                   mute_check, mute_action, time_list, tick_log>>

\* one iteration of: for t in self.reminder_times: self.db.add_reminder_time(t)
saveAdd(fails) ==
    /\ pc = "save_add"
    /\ save_todo # <<>>
    /\ LET r == add_reminder_time(reminder_times, Head(save_todo), fails)
       IN  /\ reminder_times' = r[2]
           /\ ret' = (IF r[1] THEN "true" ELSE "false") /\ fault' = fails
    /\ save_todo' = Tail(save_todo)
    /\ query' = NoQuery
    /\ UNCHANGED <<timer_active, show_failure>>
    /\ drink_notice' = FALSE
    /\ UNCHANGED <<widgets, daily_goal, goal_spin, progress>>
    /\ UNCHANGED <<pc, now, drink_records, mute, last_reminder_time,
                   next_reminder_label, status_total, dlg_open, dlg_reminder_times,
                   mute_check, mute_action, time_list, tick_log>>

\* an accepted dialog after which showSettings leaves the tray's mute action alone
saveAccept_KeepsMuteAction ==
    /\ pc = "save_add"
    /\ save_todo = <<>>
    /\ dlg_open' = FALSE
    /\ dlg_reminder_times' = <<>>
    /\ time_list' = <<>>
    /\ mute_check' = FALSE
    /\ status_total' = get_total_today(drink_records, now)
    /\ next_reminder_label' = NextReminderText(now, reminder_times)
    /\ mute_action' = mute_action
    /\ pc' = "idle"
    /\ ret' = "none" /\ fault' = FALSE
    /\ query' = NoQuery
    /\ UNCHANGED <<timer_active, show_failure>>
    /\ goal_spin' = MinGoal
    /\ progress' = setValue(updateStatusProgress(status_total', daily_goal))
    /\ drink_notice' = FALSE
    /\ UNCHANGED <<widgets, daily_goal>>
    /\ UNCHANGED <<now, reminder_times, drink_records, mute, last_reminder_time,
                   save_todo, tick_log>>

\* self.accept(), then showSettings' branch for an accepted dialog
saveAccept ==
    /\ pc = "save_add"
    /\ save_todo = <<>>
    /\ dlg_open' = FALSE
    /\ dlg_reminder_times' = <<>>
    /\ time_list' = <<>>
    /\ mute_check' = FALSE
    /\ status_total' = get_total_today(drink_records, now)
    /\ next_reminder_label' = NextReminderText(now, reminder_times)
    /\ mute_action' = mute
    /\ pc' = "idle"
    /\ ret' = "none" /\ fault' = FALSE
    /\ query' = NoQuery
    /\ UNCHANGED <<timer_active, show_failure>>
    /\ goal_spin' = MinGoal
    /\ progress' = setValue(updateStatusProgress(status_total', daily_goal))
    /\ drink_notice' = FALSE
    /\ UNCHANGED <<widgets, daily_goal>>
    /\ UNCHANGED <<now, reminder_times, drink_records, mute, last_reminder_time,
                   save_todo, tick_log>>

(***************************************************************************)
(* The ledger: DatabaseManager.add_record called with any amount, and      *)
(* MainWindow.recordDrink                                                  *)
(***************************************************************************)
\* instants at which the ledger is used
LedgerClock == {ts \in ClockDomain : ts.second = 0 /\ ts.hour \in {9, 19}}

\* time passes
ClockAdvance(ts) ==
    /\ pc = "idle"
    /\ DateTimeSecs(ts) > DateTimeSecs(now)
    /\ now' = ts
    /\ ret' = "none" /\ fault' = FALSE
    /\ query' = NoQuery
    /\ UNCHANGED <<timer_active, show_failure>>
    /\ drink_notice' = FALSE
    /\ UNCHANGED <<widgets, daily_goal, goal_spin, progress>>
    /\ UNCHANGED <<pc, reminder_times, drink_records, mute, last_reminder_time,
                   next_reminder_label, status_total, dlg_open, dlg_reminder_times,
                   mute_check, mute_action, time_list, save_todo, tick_log>>

\* db.add_record(amount): session.commit() raises when the storage fails
addRecord(amount, fails) ==
    /\ pc = "idle"
    /\ Len(drink_records) < MaxRecords
    /\ drink_records' = IF fails THEN drink_records
                        ELSE add_record(drink_records, now, amount, "")
    /\ ret' = (IF fails THEN "raise" ELSE "ok") /\ fault' = fails
    /\ query' = NoQuery
    /\ UNCHANGED <<timer_active, show_failure>>
    /\ drink_notice' = FALSE
    /\ UNCHANGED <<widgets, daily_goal, goal_spin, progress>>
    /\ UNCHANGED <<pc, now, reminder_times, mute, last_reminder_time,
                   next_reminder_label, status_total, dlg_open, dlg_reminder_times,
                   mute_check, mute_action, time_list, save_todo, tick_log>>

\* a recordDrink that refreshes the display and shows the success message
\* before it calls add_record
recordDrink_NotifiesFirst(fails) ==
    /\ pc = "idle"
    /\ Len(drink_records) < MaxRecords
    /\ drink_records' = IF fails THEN drink_records
                        ELSE add_record(drink_records, now, DrinkAmount, "")
    /\ status_total' = get_total_today(drink_records, now) + DrinkAmount
    /\ progress' = setValue(updateStatusProgress(status_total', daily_goal))
    /\ next_reminder_label' = NextReminderText(now, reminder_times)
    /\ drink_notice' = TRUE
    /\ ret' = (IF fails THEN "raise" ELSE "ok") /\ fault' = fails
    /\ query' = NoQuery
    /\ UNCHANGED <<timer_active, show_failure>>
    /\ UNCHANGED <<widgets, daily_goal, goal_spin>>
    /\ UNCHANGED <<pc, now, reminder_times, mute, last_reminder_time, dlg_open,
                   dlg_reminder_times, mute_check, mute_action, time_list,
                   save_todo, tick_log>>

\* recordDrink: nothing after add_record runs when it raises
recordDrink(fails) ==
    /\ pc = "idle"
    /\ Len(drink_records) < MaxRecords
    /\ IF fails
       THEN /\ UNCHANGED <<drink_records, status_total, next_reminder_label, progress>>
            /\ drink_notice' = FALSE
       ELSE /\ drink_records' = add_record(drink_records, now, DrinkAmount, "")
            /\ status_total' = get_total_today(drink_records', now)
            /\ progress' = setValue(updateStatusProgress(status_total', daily_goal))
            /\ next_reminder_label' = NextReminderText(now, reminder_times)
            /\ drink_notice' = TRUE
    /\ ret' = (IF fails THEN "raise" ELSE "ok") /\ fault' = fails
    /\ query' = NoQuery
    /\ UNCHANGED <<timer_active, show_failure>>
    /\ UNCHANGED <<widgets, daily_goal, goal_spin>>
    /\ UNCHANGED <<pc, now, reminder_times, mute, last_reminder_time, dlg_open,
                   dlg_reminder_times, mute_check, mute_action, time_list,
                   save_todo, tick_log>>

(***************************************************************************)
(* Read queries of the ledger and the statistics widgets                   *)
(***************************************************************************)
\* calls: how many times the method op of DatabaseManager was entered, which
\* is once when the class has the attribute; widget: the statistics widget
\* whose updateChart made the query
Query(op, raised, failed, total, data) ==
    [op |-> op, raised |-> raised, failed |-> failed, total |-> total, data |-> data,
     calls |-> IF op \in DatabaseManagerMethods THEN 1 ELSE 0, widget |-> "none"]

\* the wall clock is set back (time zone change, manual or network adjustment)
ClockSetBack(ts) ==
    /\ pc = "idle"
    /\ ts.day < now.day
    /\ now' = ts
    /\ ret' = "none" /\ fault' = FALSE
    /\ query' = NoQuery
    /\ UNCHANGED <<timer_active, show_failure>>
    /\ drink_notice' = FALSE
    /\ UNCHANGED <<widgets, daily_goal, goal_spin, progress>>
    /\ UNCHANGED <<pc, reminder_times, drink_records, mute, last_reminder_time,
                   next_reminder_label, status_total, dlg_open, dlg_reminder_times,
                   mute_check, mute_action, time_list, save_todo, tick_log>>

\* db.get_total_today(): nothing catches an error of the session query
getTotalToday(fails) ==
    /\ pc = "idle"
    /\ query' = Query("get_total_today", fails, fails,
                      IF fails THEN 0 ELSE get_total_today(drink_records, now), <<>>)
    /\ ret' = "none" /\ fault' = FALSE
    /\ UNCHANGED <<timer_active, show_failure>>
    /\ drink_notice' = FALSE
    /\ UNCHANGED <<widgets, daily_goal, goal_spin, progress>>
    /\ UNCHANGED <<pc, now, reminder_times, drink_records, mute, last_reminder_time,
                   next_reminder_label, status_total, dlg_open, dlg_reminder_times,
                   mute_check, mute_action, time_list, save_todo, tick_log>>

\* WeeklyStatsWidget.updateChart of a widget in state w: without chart_canvas it
\* returns at once, else the chart is drawn from db.get_weekly_data()
weeklyChart(w, fails) ==
    IF w = "canvas"
    THEN [Query("get_weekly_data", FALSE, fails, 0,
                get_weekly_data(drink_records, now, fails)) EXCEPT !.widget = "weekly"]
    ELSE [NoQuery EXCEPT !.widget = "weekly"]

\* DailyStatsWidget.updateChart of a widget in state w: the lookup of
\* db.get_day_records raises AttributeError when the class has no such method,
\* and the widget's except branch draws the error text instead of a series
dailyChart(w, selected_date) ==
    IF w = "canvas"
    THEN [Query("get_day_records",
                "get_day_records" \notin DatabaseManagerMethods, FALSE, 0, <<>>)
              EXCEPT !.widget = "daily"]
    ELSE [NoQuery EXCEPT !.widget = "daily"]

\* WeeklyStatsWidget(): initUI, where creating the MatplotlibCanvas may fail
\* (has_canvas = FALSE), then updateChart
WeeklyStatsWidget(has_canvas, fails) ==
    /\ pc = "idle"
    /\ widgets.weekly = "none"
    /\ widgets' = [widgets EXCEPT !.weekly = IF has_canvas THEN "canvas" ELSE "no_canvas"]
    /\ query' = weeklyChart(widgets'.weekly, fails)
    /\ ret' = "none" /\ fault' = FALSE
    /\ drink_notice' = FALSE
    /\ UNCHANGED <<timer_active, show_failure, daily_goal, goal_spin, progress>>
    /\ UNCHANGED <<pc, now, reminder_times, drink_records, mute, last_reminder_time,
                   next_reminder_label, status_total, dlg_open, dlg_reminder_times,
                   mute_check, mute_action, time_list, save_todo, tick_log>>

\* DailyStatsWidget(): selected_date = datetime.now(), initUI, updateChart
DailyStatsWidget(has_canvas) ==
    /\ pc = "idle"
    /\ widgets.daily = "none"
    /\ widgets' = [widgets EXCEPT !.daily = IF has_canvas THEN "canvas" ELSE "no_canvas"]
    /\ query' = dailyChart(widgets'.daily, now.day)
    /\ ret' = "none" /\ fault' = FALSE
    /\ drink_notice' = FALSE
    /\ UNCHANGED <<timer_active, show_failure, daily_goal, goal_spin, progress>>
    /\ UNCHANGED <<pc, now, reminder_times, drink_records, mute, last_reminder_time,
                   next_reminder_label, status_total, dlg_open, dlg_reminder_times,
                   mute_check, mute_action, time_list, save_todo, tick_log>>

\* the refresh button of the weekly view
weeklyUpdateChart(fails) ==
    /\ pc = "idle"
    /\ widgets.weekly # "none"
    /\ query' = weeklyChart(widgets.weekly, fails)
    /\ ret' = "none" /\ fault' = FALSE
    /\ UNCHANGED <<timer_active, show_failure>>
    /\ drink_notice' = FALSE
    /\ UNCHANGED <<widgets, daily_goal, goal_spin, progress>>
    /\ UNCHANGED <<pc, now, reminder_times, drink_records, mute, last_reminder_time,
                   next_reminder_label, status_total, dlg_open, dlg_reminder_times,
                   mute_check, mute_action, time_list, save_todo, tick_log>>

\* the refresh button of the daily view, or onDateChanged to selected_date
dailyUpdateChart(selected_date) ==
    /\ pc = "idle"
    /\ widgets.daily # "none"
    /\ query' = dailyChart(widgets.daily, selected_date)
    /\ ret' = "none" /\ fault' = FALSE
    /\ UNCHANGED <<timer_active, show_failure>>
    /\ drink_notice' = FALSE
    /\ UNCHANGED <<widgets, daily_goal, goal_spin, progress>>
    /\ UNCHANGED <<pc, now, reminder_times, drink_records, mute, last_reminder_time,
                   next_reminder_label, status_total, dlg_open, dlg_reminder_times,
                   mute_check, mute_action, time_list, save_todo, tick_log>>

(***************************************************************************)
(* Specifications                                                          *)
(***************************************************************************)
\* the reminder scheduler and the settings dialog
Next ==
    \/ Initialize
    \/ \E ts \in ClockDomain : checkReminderTimes(ts)
    \/ toggleMute
    \/ showSettings
    \/ \E t \in EditTimes : addReminderTime(t)
    \/ \E i \in 0..Cardinality(Times) : deleteReminderTime(i)
    \/ reject
    \/ saveSettings
    \/ \E fails \in BOOLEAN : saveDelete(fails)
    \/ saveDeleteDone
    \/ \E fails \in BOOLEAN : saveAdd(fails)
    \/ saveAccept

Spec == Init /\ [][Next]_vars

\* start-up over every content an earlier run can have left in reminder_times
AnyTables == {SetToBag(S) : S \in SUBSET Times}

InitStart ==
    /\ pc = "start"
    /\ now \in ClockDomain
    /\ reminder_times \in AnyTables
    /\ drink_records = <<>>
    /\ mute \in BOOLEAN
    /\ last_reminder_time = None
    /\ next_reminder_label = NoLabel
    /\ status_total = 0
    /\ dlg_open = FALSE
    /\ dlg_reminder_times = <<>>
    /\ mute_check = FALSE
    /\ mute_action = FALSE
    /\ time_list = <<>>
    /\ save_todo = <<>>
    /\ ret = "none"
    /\ fault = FALSE
    /\ tick_log = NoTicks
    /\ query = NoQuery
    /\ timer_active = FALSE
    /\ show_failure = NoMinute
    /\ widgets = NoWidgets
    /\ daily_goal = DefaultGoal
    /\ goal_spin = MinGoal
    /\ progress = Num(0)
    /\ drink_notice = FALSE

NextStart == Initialize

SpecStart == InitStart /\ [][NextStart]_vars

\* the ledger, in a started application with the default reminder points
InitLedger ==
    /\ pc = "idle"
    /\ now \in {ts \in LedgerClock : ts.day = 0}
    /\ reminder_times = add_default_reminder_times_if_empty(EmptyBag)
    /\ drink_records = <<>>
    /\ mute = FALSE
    /\ last_reminder_time = None
    /\ next_reminder_label = NextReminderText(now, reminder_times)
    /\ status_total = 0
    /\ dlg_open = FALSE
    /\ dlg_reminder_times = <<>>
    /\ mute_check = FALSE
    /\ mute_action = FALSE
    /\ time_list = <<>>
    /\ save_todo = <<>>
    /\ ret = "none"
    /\ fault = FALSE
    /\ tick_log = NoTicks
    /\ query = NoQuery
    /\ timer_active = TRUE
    /\ show_failure = NoMinute
    /\ widgets = NoWidgets
    /\ daily_goal = DefaultGoal
    /\ goal_spin = MinGoal
    /\ progress = setValue(updateStatusProgress(status_total, daily_goal))
    /\ drink_notice = FALSE

NextLedger ==
    \/ \E ts \in LedgerClock : ClockAdvance(ts)
    \/ \E amount \in Amounts, fails \in BOOLEAN : addRecord(amount, fails)
    \/ \E fails \in BOOLEAN : recordDrink(fails)

SpecLedger == InitLedger /\ [][NextLedger]_vars

\* the ledger's read queries, over ledgers that earlier runs have filled
PriorRecord(i, d, amount) ==
    [id |-> i, timestamp |-> [day |-> d, hour |-> 9, minute |-> 0, second |-> 0],
     amount |-> amount, note |-> ""]

PriorLedgers ==
    {<<PriorRecord(1, 0 - WeekDays, 300), PriorRecord(2, 1 - WeekDays, 200)>>,
     <<PriorRecord(1, 1 - WeekDays, 200), PriorRecord(2, 2 - WeekDays, 300)>>,
     <<PriorRecord(1, -1, 200), PriorRecord(2, -1, 300)>>}

InitStats ==
    /\ pc = "idle"
    /\ now \in {ts \in LedgerClock : ts.day = 0}
    /\ reminder_times = add_default_reminder_times_if_empty(EmptyBag)
    /\ drink_records \in PriorLedgers
    /\ mute = FALSE
    /\ last_reminder_time = None
    /\ next_reminder_label = NextReminderText(now, reminder_times)
    /\ status_total = get_total_today(drink_records, now)
    /\ dlg_open = FALSE
    /\ dlg_reminder_times = <<>>
    /\ mute_check = FALSE
    /\ mute_action = FALSE
    /\ time_list = <<>>
    /\ save_todo = <<>>
    /\ ret = "none"
    /\ fault = FALSE
    /\ tick_log = NoTicks
    /\ query = NoQuery
    /\ timer_active = TRUE
    /\ show_failure = NoMinute
    /\ widgets = NoWidgets
    /\ daily_goal = DefaultGoal
    /\ goal_spin = MinGoal
    /\ progress = setValue(updateStatusProgress(status_total, daily_goal))
    /\ drink_notice = FALSE

NextStats ==
    \/ \E ts \in LedgerClock : ClockAdvance(ts)
    \/ \E ts \in LedgerClock : ClockSetBack(ts)
    \/ \E amount \in Amounts, fails \in BOOLEAN : addRecord(amount, fails)
    \/ \E fails \in BOOLEAN : recordDrink(fails)
    \/ \E fails \in BOOLEAN : getTotalToday(fails)
    \/ \E fails \in BOOLEAN : weeklyUpdateChart(fails)
    \/ \E d \in 0..MaxDay : dailyUpdateChart(d)
    \/ \E has_canvas, fails \in BOOLEAN : WeeklyStatsWidget(has_canvas, fails)
    \/ \E has_canvas \in BOOLEAN : DailyStatsWidget(has_canvas)

SpecStats == InitStats /\ [][NextStats]_vars

\* the timer's ticks when the tray message can fail
NextTick ==
    \/ Initialize
    \/ \E ts \in ClockDomain : checkReminderTimes(ts)
    \/ \E ts \in ClockDomain : checkReminderTimesRaises(ts)
    \/ toggleMute

SpecTick == Init /\ [][NextTick]_vars

\* the whole application over a ledger that earlier runs have filled
InitApp ==
    /\ pc = "idle"
    /\ now = [day |-> 0, hour |-> 9, minute |-> 0, second |-> 0]
    /\ reminder_times = SetToBag({T(9, 0)})
    /\ drink_records = <<PriorRecord(1, -1, 200), PriorRecord(2, -1, 300)>>
    /\ mute = FALSE
    /\ last_reminder_time = None
    /\ next_reminder_label = NextReminderText(now, reminder_times)
    /\ status_total = get_total_today(drink_records, now)
    /\ dlg_open = FALSE
    /\ dlg_reminder_times = <<>>
    /\ mute_check = FALSE
    /\ mute_action = FALSE
    /\ time_list = <<>>
    /\ save_todo = <<>>
    /\ ret = "none"
    /\ fault = FALSE
    /\ tick_log = NoTicks
    /\ query = NoQuery
    /\ timer_active = TRUE
    /\ show_failure = NoMinute
    /\ widgets = [weekly |-> "canvas", daily |-> "canvas"]
    /\ daily_goal = DefaultGoal
    /\ goal_spin = MinGoal
    /\ progress = setValue(updateStatusProgress(status_total, daily_goal))
    /\ drink_notice = FALSE

NextApp ==
    \/ \E ts \in LedgerClock : checkReminderTimes(ts)
    \/ toggleMute
    \/ showSettings
    \/ addReminderTime(T(10, 30))
    \/ \E i \in 0..1 : deleteReminderTime(i)
    \/ reject
    \/ saveSettings
    \/ saveDelete(FALSE)
    \/ saveDeleteDone
    \/ saveAdd(FALSE)
    \/ saveAccept
    \/ \E amount \in Amounts, fails \in BOOLEAN : addRecord(amount, fails)
    \/ \E fails \in BOOLEAN : recordDrink(fails)
    \/ \E fails \in BOOLEAN : getTotalToday(fails)
    \/ \E fails \in BOOLEAN : weeklyUpdateChart(fails)
    \/ dailyUpdateChart(0)

SpecApp == InitApp /\ [][NextApp]_vars

\* the configuration values: the tray's mute action, the dialog's mute check
\* box and goal spin box, and the progress ring
Goals == {MinGoal, DefaultGoal, MaxGoal}

InitConfig ==
    /\ pc = "start"
    /\ now = [day |-> 0, hour |-> 9, minute |-> 0, second |-> 0]
    /\ reminder_times = SetToBag({T(9, 0)})
    /\ drink_records = <<>>
    /\ mute \in BOOLEAN
    /\ last_reminder_time = None
    /\ next_reminder_label = NoLabel
    /\ status_total = 0
    /\ dlg_open = FALSE
    /\ dlg_reminder_times = <<>>
    /\ mute_check = FALSE
    /\ mute_action = FALSE
    /\ time_list = <<>>
    /\ save_todo = <<>>
    /\ ret = "none"
    /\ fault = FALSE
    /\ tick_log = NoTicks
    /\ query = NoQuery
    /\ timer_active = FALSE
    /\ show_failure = NoMinute
    /\ widgets = NoWidgets
    /\ daily_goal = DefaultGoal
    /\ goal_spin = MinGoal
    /\ progress = Num(0)
    /\ drink_notice = FALSE

NextConfig ==
    \/ Initialize
    \/ toggleMute
    \/ showSettings
    \/ clickMuteCheck
    \/ \E g \in Goals : setGoal(g)
    \/ reject
    \/ saveSettings
    \/ \E fails \in BOOLEAN : saveDelete(fails)
    \/ saveDeleteDone
    \/ \E fails \in BOOLEAN : saveAdd(fails)
    \/ saveAccept
    \/ \E amount \in Amounts, fails \in BOOLEAN : addRecord(amount, fails)
    \/ \E fails \in BOOLEAN : recordDrink(fails)

SpecConfig == InitConfig /\ [][NextConfig]_vars

(***************************************************************************)
(* Properties                                                              *)
(***************************************************************************)
DefaultPoints == {T(9, 0), T(12, 0), T(15, 0), T(18, 0)}

\* sum of the amounts of the records whose timestamp falls on day d
RECURSIVE DayTotal(_, _)
DayTotal(records, d) ==
    IF records = <<>> THEN 0
    ELSE (IF Head(records).timestamp.day = d THEN Head(records).amount ELSE 0)
         + DayTotal(Tail(records), d)

\* C1: at most one reminder fires per calendar minute, and when two or more
\* tick checks fall in the same minute and match a configured point, exactly
\* the first of them fires.
C1_FirstCheckOfMinuteFires ==
    /\ tick_log.fires <= 1
    /\ tick_log.matching >= 2 => (tick_log.fires = 1 /\ tick_log.first_fired)

\* C2: on every day, a configured point whose minute is checked at least once
\* fires exactly once in that minute, whatever was fired before.
C2_PointFiresEveryDay ==
    tick_log.matching >= 1 => tick_log.fires = 1

\* C3: for a non-empty point set the next reminder is today's earliest point
\* strictly later than now's time of day, or else tomorrow's earliest point,
\* and it is strictly later than now.
C3_NextReminderStrictlyLater ==
    reminder_times # EmptyBag =>
        LET points == BagToSet(reminder_times)
            later  == {p \in points : TimeSecs(p) > StampTimeSecs(now)}
            r      == getNextReminderTime(now, reminder_times)
        IN  /\ r = IF later # {} THEN Combine(now.day, MinTime(later))
                   ELSE Combine(now.day + 1, MinTime(points))
            /\ DateTimeSecs(r) > DateTimeSecs(now)

\* a tick at exactly the time of the only point: the next reminder is tomorrow's
C3_Witness ==
    /\ pc = "idle"
    /\ tick_log.minute = CalendarMinute(now)
    /\ now.second = 0
    /\ reminder_times = Row(T(now.hour, now.minute))
    /\ next_reminder_label = Strftime(T(now.hour, now.minute))
    /\ getNextReminderTime(now, reminder_times).day = now.day + 1

\* C4: delete_reminder_time applied to the sole remaining point returns false
\* and leaves the table unchanged.
C4_DeleteSolePointRejected ==
    [][(pc = "save_delete" /\ save_todo # <<>>
            /\ reminder_times = Row(Head(save_todo)))
        => (ret' = "false" /\ reminder_times' = reminder_times)]_vars

\* C5: whenever a handler has returned, the reminder_times table holds at
\* least one point, also after a save in which a delete or an add failed.
C5_StoreNeverEmpty ==
    pc = "idle" => reminder_times # EmptyBag

\* C6: add_reminder_time(t) returns false and leaves the table unchanged when t
\* is already stored; when t is not stored and the storage does not fail it
\* inserts exactly one row t and returns true.
C6_AddReminderPoint ==
    [][(pc = "save_add" /\ save_todo # <<>>) =>
        LET t == Head(save_todo)
        IN  IF BagIn(t, reminder_times)
            THEN ret' = "false" /\ reminder_times' = reminder_times
            ELSE ~fault' => /\ ret' = "true"
                            /\ BagToSet(reminder_times') = BagToSet(reminder_times) \cup {t}
                            /\ CopiesIn(t, reminder_times') = 1
                            /\ BagCardinality(reminder_times') =
                                   BagCardinality(reminder_times) + 1]_vars

\* add_reminder_time has just refused a time that is still stored
C6_Witness ==
    /\ pc = "save_add"
    /\ ret = "false"
    /\ ~fault
    /\ Len(save_todo) < Len(dlg_reminder_times)
    /\ CopiesIn(dlg_reminder_times[Len(dlg_reminder_times) - Len(save_todo)],
                reminder_times) = 1

\* C7: neither the reminder_times table nor the dialog's list ever holds two
\* entries with the same hour and minute.
C7_NoDuplicatePoints ==
    /\ \A t \in BagToSet(reminder_times) : CopiesIn(t, reminder_times) = 1
    /\ \A i, j \in 1..Len(dlg_reminder_times) :
           (dlg_reminder_times[i].hour = dlg_reminder_times[j].hour
               /\ dlg_reminder_times[i].minute = dlg_reminder_times[j].minute)
           => i = j

\* the dialog's list after a time earlier than the stored ones was added to it
C7_Witness ==
    /\ dlg_open
    /\ Len(dlg_reminder_times) = 3
    /\ dlg_reminder_times[3] \in EditTimes
    /\ TimeSecs(dlg_reminder_times[3]) < TimeSecs(dlg_reminder_times[1])

\* C8: start-up with an empty reminder_times table stores exactly 09:00, 12:00,
\* 15:00 and 18:00; start-up with a non-empty table leaves the table as it is.
C8_DefaultPoints ==
    [][(pc = "start" /\ pc' = "idle") =>
        IF BagCardinality(reminder_times) = 0
        THEN reminder_times' = SetToBag(DefaultPoints)
        ELSE reminder_times' = reminder_times]_vars

\* the application has started and stores the four default points
C8_Witness ==
    /\ pc = "idle"
    /\ BagToSet(reminder_times) = DefaultPoints
    /\ BagCardinality(reminder_times) = 4
    /\ next_reminder_label # NoLabel

\* C9: a successful add_record(amount) with amount > 0 raises today's total by
\* exactly amount and changes the total of no earlier day.
C9_AddRecordRaisesToday ==
    [][(Len(drink_records') = Len(drink_records) + 1
            /\ drink_records'[Len(drink_records')].amount > 0) =>
        LET amount == drink_records'[Len(drink_records')].amount
        IN  /\ get_total_today(drink_records', now') =
                   get_total_today(drink_records, now) + amount
            /\ \A d \in 0..MaxDay :
                   d < now.day => DayTotal(drink_records', d) = DayTotal(drink_records, d)]_vars

\* a positive amount was recorded on a day after a day that has a record
C9_Witness ==
    /\ ret = "ok"
    /\ Len(drink_records) >= 2
    /\ drink_records[Len(drink_records)].amount > 0
    /\ drink_records[Len(drink_records)].timestamp = now
    /\ drink_records[1].timestamp.day < now.day
    /\ drink_records[1].amount > 0

\* C10: add_record refuses an amount <= 0, so every stored record has a
\* positive amount.
C10_StoredAmountsPositive ==
    \A i \in 1..Len(drink_records) : drink_records[i].amount > 0

\* the entry of a weekly series for day d, <<>> when the series has none
EntryOf(data, d) ==
    IF \E i \in 1..Len(data) : data[i][1] = StrftimeMonthDay(d)
    THEN data[CHOOSE i \in 1..Len(data) : data[i][1] = StrftimeMonthDay(d)]
    ELSE <<>>

\* C11: get_weekly_data always returns exactly 7 entries, one for each of the
\* 7 consecutive days ending today, oldest first, with total 0 for the days
\* without records, whatever the ledger holds and also when the query fails.
C11_WeeklySeriesSevenDays ==
    query.op = "get_weekly_data" =>
        /\ Len(query.data) = WeekDays
        /\ \A i \in 1..Len(query.data) :
               /\ query.data[i][1] = StrftimeMonthDay(now.day - WeekDays + i)
               /\ DayTotal(drink_records, now.day - WeekDays + i) = 0
                      => query.data[i][2] = 0

\* C12: every entry of the weekly series carries the sum of the amounts of the
\* records logged on its day, and the entry for today equals get_total_today.
C12_WeeklyEntriesArePerDayTotals ==
    (query.op = "get_weekly_data" /\ ~query.failed) =>
        /\ \A d \in (now.day - WeekDays + 1)..now.day :
               EntryOf(query.data, d) = <<StrftimeMonthDay(d), DayTotal(drink_records, d)>>
        /\ EntryOf(query.data, now.day)[2] = get_total_today(drink_records, now)

\* C13: get_total_today is the sum of the amounts of exactly the records whose
\* timestamp falls on today's date, and is 0, without raising, on an empty
\* ledger.
C13_TotalTodayOnlyToday ==
    (query.op = "get_total_today" /\ ~query.failed) =>
        /\ ~query.raised
        /\ query.total = DayTotal(drink_records, now.day)
        /\ (\A i \in 1..Len(drink_records) : drink_records[i].timestamp.day # now.day)
               => query.total = 0

\* C14: a read whose storage access fails returns normally with a zero-filled
\* result: 0 for the day total, 7 zero entries for the weekly series.
C14_ReadsSwallowStorageFailure ==
    query.failed =>
        /\ ~query.raised
        /\ query.op = "get_total_today" => query.total = 0
        /\ query.op = "get_weekly_data" =>
               /\ Len(query.data) = WeekDays
               /\ \A i \in 1..Len(query.data) : query.data[i][2] = 0

\* C16: the day-hourly query that DailyStatsWidget.updateChart calls returns,
\* for every day, exactly 24 (hour label, total) entries in ascending order of
\* the hour, with total 0 for the hours without records.
C16_DayHourlySeries24 ==
    query.op = "get_day_records" =>
        /\ ~query.raised
        /\ Len(query.data) = HoursOfDay
        /\ \A i \in 1..Len(query.data) :
               /\ query.data[i][1] = <<i - 1, 0>>
               /\ (\A k \in 1..Len(drink_records) :
                       drink_records[k].timestamp.hour # i - 1) => query.data[i][2] = 0

\* C15: a write whose storage access fails reports the failure to its caller
\* as an error, not as a normal return, and leaves the stored records and the
\* stored reminder points as they were.
C15_WritesSurfaceStorageFailure ==
    [][fault' => /\ ret' = "raise"
                 /\ reminder_times' = reminder_times
                 /\ drink_records' = drink_records]_vars

\* a step is a tick check: only checkReminderTimes writes tick_log
IsTick == tick_log' # tick_log

\* the tick check of a step called showReminder
TickFired ==
    tick_log'.fires > (IF tick_log.minute = tick_log'.minute THEN tick_log.fires ELSE 0)

\* the tick check of a step displayed the tray message
TickShown ==
    tick_log'.shown > (IF tick_log.minute = tick_log'.minute THEN tick_log.shown ELSE 0)

\* the minute of the tick check of a step is a configured reminder point
TickMinuteConfigured == T(now'.hour, now'.minute) \in BagToSet(reminder_times)

\* C17: the ledger is append-only: every operation leaves each stored record
\* as it was, the number of records never decreases, and ids are pairwise
\* distinct.
C17_LedgerAppendOnly ==
    [][/\ Len(drink_records') >= Len(drink_records)
       /\ \A i \in 1..Len(drink_records) : drink_records'[i] = drink_records[i]
       /\ \A i, j \in 1..Len(drink_records') :
              i # j => drink_records'[i].id # drink_records'[j].id]_vars

\* a record was added to a ledger of earlier days, after a reminder fired and
\* the reminder points were saved to other points than those of the start
C17_Witness ==
    /\ pc = "idle"
    /\ Len(drink_records) = MaxRecords
    /\ drink_records[1].timestamp.day < 0
    /\ drink_records[Len(drink_records)].timestamp.day >= 0
    /\ last_reminder_time # None
    /\ reminder_times # SetToBag({T(9, 0)})

\* C18: after a tick in which showReminder raised, the timer keeps running and
\* the first tick check of a later minute that matches a configured point
\* fires.
C18_TicksSurviveShowReminderFailure ==
    [][/\ show_failure' # NoMinute => timer_active'
       /\ (/\ show_failure # NoMinute
           /\ IsTick
           /\ tick_log'.minute # show_failure
           /\ tick_log'.minute # tick_log.minute
           /\ TickMinuteConfigured) => TickFired]_vars

\* C19: a tick check fires only in a minute that is a configured reminder
\* point; a check in any other minute fires nothing and leaves
\* last_reminder_time as it was.
C19_FiresOnlyInConfiguredMinute ==
    [][IsTick =>
           /\ TickFired => TickMinuteConfigured
           /\ ~TickMinuteConfigured =>
                  ~TickFired /\ last_reminder_time' = last_reminder_time]_vars

\* a tick check ran in a minute that is no reminder point, after a reminder
\* had fired
C19_Witness ==
    /\ tick_log.checks > 0
    /\ tick_log.matching = 0
    /\ tick_log.fires = 0
    /\ T(now.hour, now.minute) \notin BagToSet(reminder_times)
    /\ last_reminder_time # None

\* C20: while mute is set no tick displays the notification, and a muted tick
\* that fires still moves last_reminder_time to its minute.
C20_MuteOnlySuppressesDisplay ==
    [][(IsTick /\ mute) =>
           /\ ~TickShown
           /\ (TickMinuteConfigured /\ last_reminder_time # T(now'.hour, now'.minute))
                  => /\ TickFired
                     /\ last_reminder_time' = T(now'.hour, now'.minute)]_vars

\* a muted tick fired: nothing was displayed and the watermark is its minute
C20_Witness ==
    /\ mute
    /\ tick_log.fires = 1
    /\ tick_log.shown = 0
    /\ last_reminder_time = T(now.hour, now.minute)

\* C21: every chart refresh reads the ledger exactly once: building a
\* WeeklyStatsWidget and each later updateChart of it call get_weekly_data
\* exactly once, building a DailyStatsWidget and each later updateChart of it
\* call get_day_records exactly once.
C21_RefreshReadsLedgerOnce ==
    /\ query.widget = "weekly" => (query.op = "get_weekly_data" /\ query.calls = 1)
    /\ query.widget = "daily" => (query.op = "get_day_records" /\ query.calls = 1)

\* the set of the times of a python list
ListSet(list) == {list[i] : i \in 1..Len(list)}

\* C22: when saveSettings completes without a storage failure, the stored
\* reminder points are exactly the times of the dialog's edited list.
C22_SaveStoresEditedList ==
    [][(pc = "save_add" /\ pc' = "idle") =>
           reminder_times' = SetToBag(ListSet(dlg_reminder_times))]_vars

\* a save has replaced the stored point 09:00 by the edited list's 10:30
C22_Witness ==
    /\ pc = "idle"
    /\ ~dlg_open
    /\ reminder_times = SetToBag({T(10, 30)})

\* a step of the open dialog that edits its list or cancels it
IsDialogEdit ==
    /\ pc = "idle" /\ pc' = "idle"
    /\ dlg_open
    /\ (dlg_reminder_times' # dlg_reminder_times \/ ~dlg_open')

\* C23: adding and deleting points in the settings dialog, and cancelling it,
\* change the dialog's list only: the stored reminder points and the
\* configuration values stay as they were.
C23_DialogEditsLeaveStoreAlone ==
    [][IsDialogEdit => /\ reminder_times' = reminder_times
                       /\ mute' = mute
                       /\ daily_goal' = daily_goal]_vars

\* the dialog is open and its list has a time the store does not hold
C23_Witness ==
    /\ pc = "idle"
    /\ dlg_open
    /\ \E t \in ListSet(dlg_reminder_times) : ~BagIn(t, reminder_times)

\* C24: recordDrink refreshes the display and shows the success message only
\* after the record is committed: when add_record raises, no record is added,
\* the displayed total and progress stay and no message is shown; when it
\* succeeds, exactly one record of 200 ml is added and the display shows the
\* new total of today.
C24_RecordDrinkNotifiesAfterCommit ==
    [][/\ fault' => /\ drink_records' = drink_records
                    /\ status_total' = status_total
                    /\ progress' = progress
                    /\ ~drink_notice'
       /\ drink_notice' =>
              /\ Len(drink_records') = Len(drink_records) + 1
              /\ SubSeq(drink_records', 1, Len(drink_records)) = drink_records
              /\ drink_records'[Len(drink_records')].amount = DrinkAmount
              /\ drink_records'[Len(drink_records')].timestamp = now'
              /\ status_total' = DayTotal(drink_records', now'.day)]_vars

\* recordDrink succeeded on a day that already had a record: the message was
\* shown and the displayed total counts both
C24_Witness ==
    /\ drink_notice
    /\ ret = "ok"
    /\ Len(drink_records) >= 2
    /\ drink_records[Len(drink_records)].amount = DrinkAmount
    /\ drink_records[1].timestamp.day = now.day
    /\ status_total = DayTotal(drink_records, now.day)
    /\ status_total # DrinkAmount

\* C25: after any sequence of tray mute toggles and accepted or cancelled
\* settings dialogs, the checked state of the tray's mute action is the
\* configuration value 'mute'.
C25_MuteActionMatchesConfig ==
    pc = "idle" => mute_action = mute

\* a dialog was accepted with a new goal and the mute box checked: the tray
\* action is checked
C25_Witness ==
    /\ pc = "idle"
    /\ ~dlg_open
    /\ daily_goal = MaxGoal
    /\ mute
    /\ mute_action

====
